---- MODULE Spec2Model ----
(***************************************************************************)
(* Model of the query-construction layer of labelbox-python                *)
(* (labelbox/orm/query.py): the Comparison / LogicalExpression filter      *)
(* trees, the Query builder (format, format_top), the clause validators    *)
(* (check_where_clause, check_order_by_clause) and the operation           *)
(* constructors get_single, get_all, relationship and delete.              *)
(*                                                                         *)
(* Every Python object is a record with a "kind" field.  Query text is a   *)
(* string, built with the same concatenations as the "%" formats of the    *)
(* source.  A dict is a sequence of entries in insertion order.            *)
(*                                                                         *)
(* Also modelled: LabelsConfidencePresenceChecker.check                    *)
(* (labelbox/schema/confidence_presence_checker.py) and                    *)
(* ModelRun.upsert_labels (labelbox/schema/model_run.py).                  *)
(*                                                                         *)
(* Spec is a client that builds the arguments of every call anew.          *)
(* SpecRepeat is a client that keeps Query objects and formats them again  *)
(* and again.  There the objects live on `heap`, a sequence of objects     *)
(* indexed by address: the Query objects the client built, and behind them *)
(* every dict a format call created, which stays where it is after the     *)
(* call.  `first_top` is the result of the first format_top on each Query. *)
(***************************************************************************)
EXTENDS Integers, Sequences, FiniteSets, TLC

VARIABLES call, result, heap, first_top

vars == <<call, result, heap, first_top>>

-----------------------------------------------------------------------------
(* Bounds of the explored inputs.                                          *)

\* Largest number of nodes (Comparison and LogicalExpression nodes) of a
\* filter tree over the wide leaf alphabet (every operator, every value).
MaxWideNodes == 3

\* Largest number of nodes of a filter tree over the narrow leaf alphabet.
MaxDeepNodes == 5

\* Largest number of nested Query levels of a directly built Query chain.
MaxLevels == 3

\* The longest list of labels the confidence checker is given.
MaxLabels == 2

\* The largest number of answers the server has ready for upsert_labels.
MaxPolls == 3

\* The number of dicts the format calls of one run may create.
MaxDicts == 3

-----------------------------------------------------------------------------
(* Python values.                                                          *)

None == [kind |-> "None"]

PyStr(s) == [kind |-> "str", s |-> s]

PyInt(n) == [kind |-> "int", n |-> n]

\* A list, by its items.
PyList(items) == [kind |-> "list", items |-> items]

\* Python truth value of a str, an int, a list or None (`if uid`).
Truthy(v) ==
    \/ v.kind = "str" /\ v.s # ""
    \/ v.kind = "int" /\ v.n # 0
    \/ v.kind = "list" /\ Len(v.items) > 0

SeqToSet(s) == {s[i] : i \in 1..Len(s)}

RECURSIVE Join(_, _)
\* sep.join(strs)
Join(sep, strs) ==
    IF Len(strs) = 0 THEN ""
    ELSE IF Len(strs) = 1 THEN strs[1]
    ELSE strs[1] \o sep \o Join(sep, Tail(strs))

-----------------------------------------------------------------------------
(* Schema metadata: Field, Relationship and Entity descriptors.            *)

\* A Field object.  Two Field objects are equal only when they are the same
\* object (Field.__eq__ on two Fields is identity): the owner and the name
\* identify the object.
Field(owner, name, graphql_name, field_type) ==
    [kind |-> "Field", owner |-> owner, name |-> name,
     graphql_name |-> graphql_name, field_type |-> field_type]

\* Entity.uid and Entity.deleted are inherited by every Entity subtype.
Entity_uid == Field("Entity", "uid", "id", "ID")

Entity_deleted == Field("Entity", "deleted", "deleted", "Boolean")

Project_name == Field("Project", "name", "name", "String")

Project_description == Field("Project", "description", "description", "String")

Dataset_name == Field("Dataset", "name", "name", "String")

Dataset_created_at == Field("Dataset", "created_at", "createdAt", "DateTime")

ModelRun_name == Field("ModelRun", "name", "name", "String")

ModelRun_updated_at == Field("ModelRun", "updated_at", "updatedAt", "DateTime")

ModelRun_created_at == Field("ModelRun", "created_at", "createdAt", "DateTime")

ModelRun_created_by_id == Field("ModelRun", "created_by_id", "createdBy", "String")

ModelRun_model_id == Field("ModelRun", "model_id", "modelId", "String")

Entities == {"Project", "Dataset", "ModelRun"}

\* entity.fields(): the Fields declared on the entity type, in attribute-name
\* order, without the soft-delete marker Entity.deleted.
EntityFields(entity) ==
    CASE entity = "Project" -> <<Project_description, Project_name, Entity_uid>>
      [] entity = "Dataset" -> <<Dataset_created_at, Dataset_name, Entity_uid>>
      [] entity = "ModelRun" ->
            <<ModelRun_created_at, ModelRun_created_by_id, ModelRun_model_id,
              ModelRun_name, Entity_uid, ModelRun_updated_at>>

\* utils.camel_case(type_name)
camel_case(s) ==
    CASE s = "Project" -> "project"
      [] s = "Dataset" -> "dataset"
      [] s = "ModelRun" -> "modelRun"
      [] s = "Label" -> "label"
      [] OTHER -> s

\* utils.title_case(s)
title_case(s) ==
    CASE s = "datasets" -> "Datasets"
      [] s = "projects" -> "Projects"
      [] s = "modelRuns" -> "ModelRuns"
      [] s = "project" -> "Project"
      [] OTHER -> s

-----------------------------------------------------------------------------
(* Expression tree.                                                        *)

ComparisonOps == {"EQ", "NE", "LT", "GT", "LE", "GE"}

LogicalOps == {"AND", "OR", "NOT"}

Comparison(op, field, value) ==
    [kind |-> "Comparison", op |-> op, field |-> field, value |-> value]

\* LogicalExpression(op, first, second=None)
LogicalExpression(op, first, second) ==
    [kind |-> "LogicalExpression", op |-> op, first |-> first, second |-> second]


-----------------------------------------------------------------------------
(* Clause validators.                                                      *)

RECURSIVE fields_first_only(_)
\* fields that forgets the second child of a LogicalExpression.
fields_first_only(where) ==
    IF where.kind = "LogicalExpression" THEN fields_first_only(where.first)
    ELSE IF where.kind = "Comparison" THEN <<where.field>>
    ELSE <<>>

RECURSIVE fields(_)
\* check_where_clause.fields: the fields of the Comparison leaves of a where
\* clause, depth first, first child before second.  None yields nothing.
fields(where) ==
    IF where.kind = "LogicalExpression"
    THEN fields(where.first) \o fields(where.second)
    ELSE IF where.kind = "Comparison" THEN <<where.field>>
    ELSE <<>>

\* logical_ops that yields the operator of the root only.
logical_ops_root_only(where) ==
    IF where.kind = "LogicalExpression" THEN <<where.op>> ELSE <<>>

RECURSIVE logical_ops(_)
\* logical_ops: the operators of the LogicalExpression nodes of a where clause.
logical_ops(where) ==
    IF where.kind = "LogicalExpression"
    THEN <<where.op>> \o logical_ops(where.first) \o logical_ops(where.second)
    ELSE <<>>

\* A call that returned: its return value has a text, a parameter table and
\* a variables mapping (empty for the validators, which return None).
Returned(text, params, variables) ==
    [raised |-> "", msg |-> "", text |-> text, params |-> params,
     variables |-> variables]

\* A call that raised the exception `exc`.
Raised(exc, msg) ==
    [raised |-> exc, msg |-> msg, text |-> "", params |-> <<>>,
     variables |-> <<>>]

\* The fields of a where clause without the soft-delete marker
\* (`where_fields` of check_where_clause).
where_fields(where) == SelectSeq(fields(where), LAMBDA f : f # Entity_deleted)

\* The operator sets check_where_clause lets through.
AllowedOpSets == {{}, {"AND"}}

\* check_where_clause without the check for repeated fields.
check_where_clause_no_duplicates_check(entity, where) ==
    LET wf == where_fields(where)
        invalid_fields == SeqToSet(wf) \ SeqToSet(EntityFields(entity))
    IN  IF invalid_fields # {}
        THEN Raised("InvalidAttributeError", "invalid fields")
        ELSE IF SeqToSet(logical_ops(where)) \notin AllowedOpSets
        THEN Raised("InvalidQueryError", "only AND logical ops are allowed")
        ELSE Returned("", <<>>, <<>>)

\* check_where_clause with the check for repeated fields made first.
check_where_clause_duplicates_first(entity, where) ==
    LET wf == where_fields(where)
        invalid_fields == SeqToSet(wf) \ SeqToSet(EntityFields(entity))
    IN  IF Cardinality(SeqToSet(wf)) # Len(wf)
        THEN Raised("InvalidQueryError", "multiple comparisons for the same field")
        ELSE IF invalid_fields # {}
        THEN Raised("InvalidAttributeError", "invalid fields")
        ELSE IF SeqToSet(logical_ops(where)) \notin AllowedOpSets
        THEN Raised("InvalidQueryError", "only AND logical ops are allowed")
        ELSE Returned("", <<>>, <<>>)

\* check_where_clause(entity, where)
check_where_clause(entity, where) ==
    LET wf == where_fields(where)
        invalid_fields == SeqToSet(wf) \ SeqToSet(EntityFields(entity))
    IN  IF invalid_fields # {}
        THEN Raised("InvalidAttributeError", "invalid fields")
        ELSE IF Cardinality(SeqToSet(wf)) # Len(wf)
        THEN Raised("InvalidQueryError", "multiple comparisons for the same field")
        ELSE IF SeqToSet(logical_ops(where)) \notin AllowedOpSets
        THEN Raised("InvalidQueryError", "only AND logical ops are allowed")
        ELSE Returned("", <<>>, <<>>)

\* An order_by tuple (Field, Field.Order).
OrderBy(field, order) == [kind |-> "tuple", field |-> field, order |-> order]

\* check_order_by_clause that looks the field up by its name.
check_order_by_clause_by_name(entity, order_by) ==
    IF order_by # None
        /\ order_by.field.name \notin
                {EntityFields(entity)[i].name : i \in 1..Len(EntityFields(entity))}
    THEN Raised("InvalidAttributeError", "invalid fields")
    ELSE Returned("", <<>>, <<>>)

\* check_order_by_clause(entity, order_by)
check_order_by_clause(entity, order_by) ==
    IF order_by # None /\ order_by.field \notin SeqToSet(EntityFields(entity))
    THEN Raised("InvalidAttributeError", "invalid fields")
    ELSE Returned("", <<>>, <<>>)

-----------------------------------------------------------------------------
(* Query builder.                                                          *)

\* COMPARISON_TO_SUFFIX[op]
COMPARISON_TO_SUFFIX(op) ==
    CASE op = "EQ" -> ""
      [] op = "NE" -> "_not"
      [] op = "LT" -> "_lt"
      [] op = "GT" -> "_gt"
      [] op = "LE" -> "_lte"
      [] op = "GE" -> "_gte"

\* An entry of a parameter dict: params[name] = (value, attr).
ParamEntry(name, value, attr) == [name |-> name, value |-> value, attr |-> attr]

\* The keys of a dict, in insertion order.
Keys(d) == [i \in 1..Len(d) |-> d[i].name]

\* d[name] = (value, attr): a new key is appended, an existing key keeps its
\* place and has its value overwritten.
DictSet(d, name, value, attr) ==
    IF \E i \in 1..Len(d) : d[i].name = name
    THEN [i \in 1..Len(d) |->
            IF d[i].name = name THEN ParamEntry(name, value, attr) ELSE d[i]]
    ELSE Append(d, ParamEntry(name, value, attr))

\* attr_type(attr) of format_param_declaration
attr_type(attr) == IF attr.kind = "Field" THEN attr.field_type ELSE "ID"

\* format_param_declaration without the early return for an empty dict.
format_param_declaration_always_parens(params) ==
    "(" \o Join(", ", [i \in 1..Len(params) |->
                "$" \o params[i].name \o ": " \o attr_type(params[i].attr) \o "!"])
        \o ")"

\* format_param_declaration(params)
format_param_declaration(params) ==
    IF Len(params) = 0 THEN ""
    ELSE "(" \o Join(", ", [i \in 1..Len(params) |->
                "$" \o params[i].name \o ": " \o attr_type(params[i].attr) \o "!"])
         \o ")"

\* Query(what, subquery, where=None, paginate=False, order_by=None)
Query(what, subquery, where, paginate, order_by) ==
    [kind |-> "Query", what |-> what, subquery |-> subquery, where |-> where,
     paginate |-> paginate, order_by |-> order_by]

\* An Entity subtype used as a sub-selection.
EntityType(name) == [kind |-> "Entity", name |-> name]

\* "param_%d" % len(params)
param_name_of(params) == "param_" \o ToString(Len(params))

RECURSIVE format_where_second_first(_, _)
\* format_where that formats the second child of an AND or OR before the
\* first.
format_where_second_first(node, params) ==
    IF node.kind = "Comparison"
    THEN LET param_name == param_name_of(params)
         IN  [text |-> "{" \o node.field.graphql_name
                        \o COMPARISON_TO_SUFFIX(node.op) \o ": $" \o param_name \o "}",
              params |-> DictSet(params, param_name, node.value, node.field)]
    ELSE IF node.op = "NOT"
    THEN LET c == format_where_second_first(node.first, params)
         IN  [text |-> "{NOT: [" \o c.text \o "]}", params |-> c.params]
    ELSE LET b == format_where_second_first(node.second, params)
             a == format_where_second_first(node.first, b.params)
         IN  [text |-> "{" \o node.op \o ": [" \o a.text \o ", " \o b.text \o "]}",
              params |-> a.params]

RECURSIVE format_where(_, _)
\* format_where(node) of Query.format_clauses, with the dict `params` it
\* closes over: the text of the node and the dict after the call.  The
\* children of an AND or OR are formatted first child first.
format_where(node, params) ==
    IF node.kind = "Comparison"
    THEN LET param_name == param_name_of(params)
         IN  [text |-> "{" \o node.field.graphql_name
                        \o COMPARISON_TO_SUFFIX(node.op) \o ": $" \o param_name \o "}",
              params |-> DictSet(params, param_name, node.value, node.field)]
    ELSE IF node.op = "NOT"
    THEN LET c == format_where(node.first, params)
         IN  [text |-> "{NOT: [" \o c.text \o "]}", params |-> c.params]
    ELSE LET a == format_where(node.first, params)
             b == format_where(node.second, a.params)
         IN  [text |-> "{" \o node.op \o ": [" \o a.text \o ", " \o b.text \o "]}",
              params |-> b.params]

\* Field.Order.<order>.name.upper()
OrderName(order) == IF order = "Asc" THEN "ASC" ELSE "DESC"

\* format_clauses that puts the pagination clause before the filter.
format_clauses_paginate_first(q, params) ==
    LET paginate == IF q.paginate THEN "skip: %d first: %d" ELSE ""
        w == IF q.where # None THEN format_where(q.where, params)
             ELSE [text |-> "", params |-> params]
        where == IF q.where # None THEN "where: " \o w.text ELSE ""
        order_by == IF q.order_by # None
                    THEN "orderBy: " \o q.order_by.field.graphql_name \o "_"
                            \o OrderName(q.order_by.order)
                    ELSE ""
        clauses == Join(" ", SelectSeq(<<paginate, where, order_by>>,
                                       LAMBDA c : c # ""))
    IN  [text |-> IF clauses # "" THEN "(" \o clauses \o ")" ELSE "",
         params |-> w.params]

\* Query.format_clauses(params): the clause text and the dict after the call.
format_clauses(q, params) ==
    LET paginate == IF q.paginate THEN "skip: %d first: %d" ELSE ""
        w == IF q.where # None THEN format_where(q.where, params)
             ELSE [text |-> "", params |-> params]
        where == IF q.where # None THEN "where: " \o w.text ELSE ""
        order_by == IF q.order_by # None
                    THEN "orderBy: " \o q.order_by.field.graphql_name \o "_"
                            \o OrderName(q.order_by.order)
                    ELSE ""
        clauses == Join(" ", SelectSeq(<<where, paginate, order_by>>,
                                       LAMBDA c : c # ""))
    IN  [text |-> IF clauses # "" THEN "(" \o clauses \o ")" ELSE "",
         params |-> w.params]

\* The text of an Entity sub-selection: its fields' wire names.
EntityFieldsText(entity) ==
    Join(" ", [i \in 1..Len(EntityFields(entity)) |->
                    EntityFields(entity)[i].graphql_name])

\* A class that is not an Entity subtype (str, int, ...).
PyClass(name) == [kind |-> "class", name |-> name]

\* The else branch of format_subquery: `raise MalformedQueryException()` names
\* a class the module neither imports nor defines, so evaluating it raises
\* NameError.
raise_MalformedQueryException ==
    Raised("NameError", "name 'MalformedQueryException' is not defined")

\* issubclass(x, Entity) for an x that is not a class.
issubclass_not_a_class == Raised("TypeError", "issubclass() arg 1 must be a class")

RECURSIVE format(_)
\* format_subquery that starts a fresh dict for a Query sub-selection too.
format_subquery_fresh_dict(q) ==
    IF q.subquery.kind = "Query"
    THEN LET f == format(q.subquery)
         IN  IF f.raised # "" THEN f ELSE Returned(f.text, <<>>, <<>>)
    ELSE IF q.subquery.kind = "Entity"
    THEN Returned(EntityFieldsText(q.subquery.name), <<>>, <<>>)
    ELSE IF q.subquery.kind = "class" THEN raise_MalformedQueryException
    ELSE issubclass_not_a_class

\* Query.format_subquery(): a Query sub-selection is formatted recursively
\* and hands on its own dict; an Entity sub-selection starts a fresh dict;
\* a class that is no Entity subtype reaches the else branch; a value that is
\* no class at all makes issubclass raise.
format_subquery(q) ==
    IF q.subquery.kind = "Query" THEN format(q.subquery)
    ELSE IF q.subquery.kind = "Entity"
    THEN Returned(EntityFieldsText(q.subquery.name), <<>>, <<>>)
    ELSE IF q.subquery.kind = "class" THEN raise_MalformedQueryException
    ELSE issubclass_not_a_class

\* Query.format(): (query text, params); an exception of format_subquery
\* propagates before the clauses are formatted.
format(q) ==
    LET sub == format_subquery(q)
        clauses == format_clauses(q, sub.params)
    IN  IF sub.raised # "" THEN sub
        ELSE Returned(q.what \o clauses.text \o "{" \o sub.text \o "}",
                      clauses.params, <<>>)

\* The flattening that takes the attribute of the pair instead of the value.
Flatten_attr(params) ==
    [i \in 1..Len(params) |-> [name |-> params[i].name, value |-> params[i].attr]]

\* {param: value for param, (value, _) in params.items()}
Flatten(params) ==
    [i \in 1..Len(params) |-> [name |-> params[i].name, value |-> params[i].value]]

\* Query.format_top(name): (full query text, variables).
format_top(q, name) ==
    LET f == format(q)
        param_declaration == format_param_declaration(f.params)
    IN  IF f.raised # "" THEN f
        ELSE Returned("query " \o name \o "PyApi" \o param_declaration
                         \o "{" \o f.text \o "}",
                      <<>>, Flatten(f.params))

-----------------------------------------------------------------------------
(* format and format_top with the parameter dict as an object on a heap.   *)
(* A dict is created by the literal `{}` of format_subquery, handed on by   *)
(* reference, and written to in place by format_clauses.                   *)

\* A dict object.
PyDict(entries) == [kind |-> "dict", entries |-> entries]

\* What a call gives back, and the heap it leaves behind.
OnHeap(r, h) ==
    [raised |-> r.raised, msg |-> r.msg, text |-> r.text, params |-> r.params,
     variables |-> r.variables, heap |-> h]

\* What the caller sees of it.
Result(f) ==
    [raised |-> f.raised, msg |-> f.msg, text |-> f.text, params |-> f.params,
     variables |-> f.variables]

\* The least address of a dict on the heap.
FirstDict(h) ==
    CHOOSE a \in 1..Len(h) :
        /\ h[a].kind = "dict"
        /\ \A b \in 1..(a - 1) : h[b].kind # "dict"

\* A `{}` that is one dict shared by all calls, as a default argument or a
\* module-level dict would be: created once, handed out again afterwards.
new_dict_shared(h) ==
    IF \E a \in 1..Len(h) : h[a].kind = "dict"
    THEN [heap |-> h, address |-> FirstDict(h)]
    ELSE [heap |-> Append(h, PyDict(<<>>)), address |-> Len(h) + 1]

\* The dict literal `{}`: a new, empty dict at the next free address.
new_dict(h) == [heap |-> Append(h, PyDict(<<>>)), address |-> Len(h) + 1]

RECURSIVE format_on(_, _)
\* Query.format_subquery() on the heap h: the text, and the address of the
\* dict as params.
format_subquery_on(h, q) ==
    IF q.subquery.kind = "Query" THEN format_on(h, q.subquery)
    ELSE IF q.subquery.kind = "Entity"
    THEN LET d == new_dict(h)
         IN  OnHeap(Returned(EntityFieldsText(q.subquery.name), d.address, <<>>),
                    d.heap)
    ELSE IF q.subquery.kind = "class" THEN OnHeap(raise_MalformedQueryException, h)
    ELSE OnHeap(issubclass_not_a_class, h)

\* Query.format() on the heap h: format_clauses writes into the dict
\* format_subquery returned, and the same dict is returned.
format_on(h, q) ==
    LET sub == format_subquery_on(h, q)
        clauses == format_clauses(q, sub.heap[sub.params].entries)
    IN  IF sub.raised # "" THEN sub
        ELSE OnHeap(Returned(q.what \o clauses.text \o "{" \o sub.text \o "}",
                             sub.params, <<>>),
                    [sub.heap EXCEPT ![sub.params] = PyDict(clauses.params)])

\* Query.format_top(name) on the heap h.
format_top_on(h, q, name) ==
    LET f == format_on(h, q)
        params == f.heap[f.params].entries
    IN  IF f.raised # "" THEN f
        ELSE OnHeap(Returned("query " \o name \o "PyApi"
                                \o format_param_declaration(params)
                                \o "{" \o f.text \o "}",
                             <<>>, Flatten(params)),
                    f.heap)

-----------------------------------------------------------------------------
(* Operation constructors.                                                 *)

\* A DbObject: an instance of an Entity subtype with its uid.
DbObject(type_name, uid) == [kind |-> "DbObject", type |-> type_name, uid |-> uid]

\* A Relationship descriptor.
Relationship(relationship_type, destination_type, graphql_name) ==
    [kind |-> "Relationship", relationship_type |-> relationship_type,
     destination_type |-> destination_type, graphql_name |-> graphql_name]

\* The where clause of get_single: `entity.uid == uid if uid else None`.
single_where(uid) == IF Truthy(uid) THEN Comparison("EQ", Entity_uid, uid) ELSE None

\* get_single(entity, uid)
get_single(entity, uid) ==
    format_top(Query(camel_case(entity), EntityType(entity), single_where(uid),
                     FALSE, None),
               "Get" \o entity)

\* get_all(entity, where)
get_all(entity, where) ==
    LET checked == check_where_clause(entity, where)
    IN  IF checked.raised # "" THEN checked
        ELSE format_top(Query(camel_case(entity) \o "s", EntityType(entity),
                              where, TRUE, None),
                        "Get" \o entity \o "s")

\* relationship(source, relationship, where, order_by)
relationship(source, rel, where, order_by) ==
    LET checked_where == check_where_clause(rel.destination_type, where)
        checked_order == check_order_by_clause(rel.destination_type, order_by)
        to_many == rel.relationship_type = "ToMany"
        subquery == Query(rel.graphql_name, EntityType(rel.destination_type),
                          where, to_many, order_by)
        query == Query(camel_case(source.type), subquery,
                       Comparison("EQ", Entity_uid, source.uid), FALSE, None)
    IN  IF checked_where.raised # "" THEN checked_where
        ELSE IF checked_order.raised # "" THEN checked_order
        ELSE format_top(query, "Get" \o source.type \o title_case(rel.graphql_name))

\* "%sId" % db_object.type_name()
id_param_of(db_object) == db_object.type \o "Id"

\* delete as a mutation that removes the row.
delete_hard(db_object) ==
    LET id_param == id_param_of(db_object)
    IN  Returned("mutation delete" \o db_object.type \o "PyApi"
                    \o "($" \o id_param \o ": ID!)"
                    \o "{delete" \o db_object.type
                    \o "(\n        where: {id: $" \o id_param
                    \o "}) {id}} ",
                 <<>>,
                 <<[name |-> id_param, value |-> db_object.uid]>>)

\* delete(db_object)
delete(db_object) ==
    LET id_param == id_param_of(db_object)
    IN  Returned("mutation delete" \o db_object.type \o "PyApi"
                    \o "($" \o id_param \o ": ID!)"
                    \o "{update" \o db_object.type
                    \o "(\n        where: {id: $" \o id_param
                    \o "} data: {deleted: true}) {id}} ",
                 <<>>,
                 <<[name |-> id_param, value |-> db_object.uid]>>)

-----------------------------------------------------------------------------
(* LabelsConfidencePresenceChecker.                                        *)

\* A float, by its literal.
PyFloat(s) == [kind |-> "float", s |-> s]

\* An attribute the object does not have: getattr without a default raises
\* AttributeError for it.
Absent == [kind |-> "absent"]

\* A call that returned the value v.
ReturnedValue(v) == [raised |-> "", msg |-> "", value |-> v]

\* A ClassificationAnswer with its confidence.
ClassificationAnswer(confidence) ==
    [kind |-> "ClassificationAnswer", confidence |-> confidence]

\* The value of a classification: Checklist and Dropdown hold a list of
\* answers, Radio one answer, Text a string; any other type is "Other".
ClassificationValue(type, answer) == [kind |-> type, answer |-> answer]

\* A nested classification: a ClassificationAnnotation with its own
\* confidence and its value.
ClassificationAnnotation(confidence, value) ==
    [kind |-> "ClassificationAnnotation", confidence |-> confidence,
     value |-> value]

\* An annotation of a label, by the two attributes the checker reads.
Annotation(confidence, classifications) ==
    [kind |-> "Annotation", confidence |-> confidence,
     classifications |-> classifications]

\* A Label, by its annotations.
Label(annotations) == [kind |-> "Label", annotations |-> annotations]

\* any([...]) over a list built by a comprehension: every element is
\* computed first, so the first exception among them propagates; otherwise
\* the value is whether some element is true.
any_of_list(rs) ==
    IF \E i \in 1..Len(rs) : rs[i].raised # ""
    THEN rs[CHOOSE i \in 1..Len(rs) :
                /\ rs[i].raised # ""
                /\ \A j \in 1..(i - 1) : rs[j].raised = ""]
    ELSE ReturnedValue(\E i \in 1..Len(rs) : rs[i].value)

\* _check_classification_answer(answer)
_check_classification_answer(answer) == answer.confidence # None

\* _check_classification(classification): only the answers of the value
\* are looked at.
_check_classification(classification) ==
    IF classification.value.kind \in {"Checklist", "Dropdown"}
    THEN ReturnedValue(\E i \in 1..Len(classification.value.answer) :
            _check_classification_answer(classification.value.answer[i]))
    ELSE IF classification.value.kind = "Radio"
    THEN ReturnedValue(_check_classification_answer(classification.value.answer))
    ELSE IF classification.value.kind = "Text"
    THEN ReturnedValue(FALSE)
    ELSE Raised("Exception", "Unexpected classification value type")

\* _check_annotation(annotation)
_check_annotation(annotation) ==
    IF annotation.confidence = Absent
    THEN Raised("AttributeError", "confidence")
    ELSE IF annotation.confidence # None THEN ReturnedValue(TRUE)
    ELSE IF annotation.classifications = Absent
    THEN Raised("AttributeError", "classifications")
    ELSE IF Truthy(annotation.classifications)
    THEN any_of_list([i \in 1..Len(annotation.classifications.items) |->
                        _check_classification(annotation.classifications.items[i])])
    ELSE ReturnedValue(FALSE)

\* _check_label(label)
_check_label(label) ==
    any_of_list([i \in 1..Len(label.annotations) |->
                    _check_annotation(label.annotations[i])])

\* check, from the deserialized label list on.
check(label_list) ==
    any_of_list([i \in 1..Len(label_list) |-> _check_label(label_list[i])])

-----------------------------------------------------------------------------
(* ModelRun.upsert_labels.                                                 *)

\* The outcome of upsert_labels: the exception or the value returned, and
\* how many times client.execute was called.
Outcome(raised, msg, value, executions) ==
    [raised |-> raised, msg |-> msg, value |-> value, executions |-> executions]

\* sleep_time = 5
sleep_time == 5

\* The assignment to query_str: the string literal is followed by
\* (mutation_name), a call of a str, where `% mutation_name` was meant.
query_str == Raised("TypeError", "'str' object is not callable")

RECURSIVE upsert_labels_loop(_, _, _)
\* The `while True` loop: `responses` are the server's answers to the
\* successive executions, `executed` the number of executions so far.
upsert_labels_loop(responses, timeout_seconds, executed) ==
    LET res == responses[executed + 1]
        remaining == timeout_seconds - sleep_time
    IN  IF Truthy(res) THEN Outcome("", "", res, executed + 1)
        ELSE IF remaining <= 0 THEN Outcome("", "", None, executed + 1)
        ELSE upsert_labels_loop(responses, remaining, executed + 1)

\* upsert_labels(label_ids, timeout_seconds) against a server answering with
\* `responses`.
upsert_labels(label_ids, timeout_seconds, responses) ==
    IF Len(label_ids) < 1
    THEN Outcome("ValueError", "Must provide at least one label id", None, 0)
    ELSE IF query_str.raised # ""
    THEN Outcome(query_str.raised, query_str.msg, None, 0)
    ELSE upsert_labels_loop(responses, timeout_seconds, 0)

-----------------------------------------------------------------------------
(* The explored inputs.                                                    *)

\* Fields filters and orderings are built from: inherited, declared on
\* Project, declared on Dataset only, and the soft-delete marker.
FilterFields ==
    {Entity_uid, Entity_deleted, Project_name, Project_description, Dataset_name}

Values == {PyInt(1), PyInt(2)}

\* Every operator and every value on every filter field.
WideLeaves ==
    {Comparison(op, f, v) : op \in ComparisonOps, f \in FilterFields, v \in Values}

NarrowLeaves ==
    {Comparison("EQ", f, PyStr("abc")) : f \in FilterFields}
        \cup {Comparison("GT", f, PyInt(7)) : f \in FilterFields}

\* A filter tree is drawn as a shape, a tree whose leaves are left open, and
\* one Comparison for each open leaf.
OpenLeaf == [kind |-> "OpenLeaf"]

\* The shapes with exactly Len(levels) + 1 nodes, given the sets of the
\* shapes with 1, 2, ... nodes: NOT takes one child (second is None), AND and
\* OR take two.
NextShapeLevel(levels) ==
    LET n == Len(levels) + 1
    IN  IF n = 1 THEN {OpenLeaf}
        ELSE {LogicalExpression("NOT", t, None) : t \in levels[n - 1]}
             \cup UNION {
                    {LogicalExpression(op, a, b) :
                        op \in {"AND", "OR"}, a \in levels[k], b \in levels[n - 1 - k]}
                    : k \in 1..(n - 2)}

RECURSIVE ShapeLevels(_, _)
ShapeLevels(max, levels) ==
    IF Len(levels) >= max THEN levels
    ELSE ShapeLevels(max, Append(levels, NextShapeLevel(levels)))

\* The shapes with min..max nodes.
ShapesBySize(min, max) ==
    LET levels == ShapeLevels(max, <<>>)
    IN  UNION {levels[n] : n \in min..max}

RECURSIVE NumLeaves(_)
NumLeaves(shape) ==
    IF shape.kind = "LogicalExpression"
    THEN NumLeaves(shape.first) + NumLeaves(shape.second)
    ELSE IF shape.kind = "OpenLeaf" THEN 1
    ELSE 0

RECURSIVE Fill(_, _, _)
\* The tree of the shape with its open leaves, left to right, set to
\* leaves[start], leaves[start + 1], ...
Fill(shape, leaves, start) ==
    IF shape.kind = "OpenLeaf" THEN leaves[start]
    ELSE IF shape.kind = "LogicalExpression"
    THEN LogicalExpression(shape.op,
            Fill(shape.first, leaves, start),
            Fill(shape.second, leaves, start + NumLeaves(shape.first)))
    ELSE shape

\* The filters of check_where_clause and get_all: no filter (None), every
\* tree of up to MaxWideNodes nodes over the wide leaves, and every larger
\* tree of up to MaxDeepNodes nodes over the narrow leaves.
FilterShapes ==
    {[shape |-> None, leaves |-> WideLeaves]}
        \cup {[shape |-> sh, leaves |-> WideLeaves] :
                sh \in ShapesBySize(1, MaxWideNodes)}
        \cup {[shape |-> sh, leaves |-> NarrowLeaves] :
                sh \in ShapesBySize(MaxWideNodes + 1, MaxDeepNodes)}

\* The filters of the relationship queries.
RelShapes ==
    {[shape |-> None, leaves |-> NarrowLeaves]}
        \cup {[shape |-> sh, leaves |-> NarrowLeaves] :
                sh \in ShapesBySize(1, MaxWideNodes)}

\* The ways of filling the open leaves of a shape.
Fillings(fs) == [1..NumLeaves(fs.shape) -> fs.leaves]

Orders == {"Asc", "Desc"}

OrderBys == {OrderBy(f, o) : f \in FilterFields, o \in Orders}

Uids == {None, PyStr(""), PyStr("abc"), PyStr("X123"), PyInt(0), PyInt(7)}

DbObjects ==
    {DbObject(t, uid) : t \in {"Project", "Dataset", "Label"},
                        uid \in {PyStr("abc"), PyStr("X123")}}

Project_datasets == Relationship("ToMany", "Dataset", "datasets")

Dataset_projects == Relationship("ToMany", "Project", "projects")

Label_project == Relationship("ToOne", "Project", "project")

\* The (source object, relationship) pairs of the relationship queries.
SourcesAndRelationships ==
    {<<DbObject("Project", PyStr("X123")), Project_datasets>>,
     <<DbObject("Dataset", PyStr("abc")), Dataset_projects>>,
     <<DbObject("Label", PyStr("X123")), Label_project>>}

RelOrderBys ==
    {None, OrderBy(Dataset_name, "Asc"), OrderBy(Entity_uid, "Desc")}

\* The filters of the levels of a directly built Query chain.
LevelFilters ==
    {None,
     Comparison("NE", Project_name, PyStr("abc")),
     LogicalExpression("AND",
        Comparison("EQ", Entity_uid, PyStr("X123")),
        LogicalExpression("NOT", Comparison("GE", Dataset_name, PyInt(7)), None))}

LevelOrderBys == {None, OrderBy(Project_name, "Desc")}

\* The selection name of the n-th level above the Entity sub-selection.
LevelWhat(n) ==
    CASE n = 1 -> "dataRows" [] n = 2 -> "datasets" [] n = 3 -> "project"
      [] OTHER -> "organization"

\* What a level of a Query chain is built with, besides its sub-selection.
LevelOptions ==
    [where : LevelFilters, paginate : BOOLEAN, order_by : LevelOrderBys]

RECURSIVE Chain(_, _, _)
\* The Query of n nested levels over the Entity sub-selection: level 1 is
\* the innermost Query, level n the outermost.
Chain(entity, options, n) ==
    Query(LevelWhat(n),
          IF n = 1 THEN EntityType(entity) ELSE Chain(entity, options, n - 1),
          options[n].where, options[n].paginate, options[n].order_by)

\* Answers without and with a confidence.
Answers == {ClassificationAnswer(None), ClassificationAnswer(PyFloat("0.9"))}

\* Classification values of every type the checker tells apart, and one of
\* a type it does not know.
ClassificationValues ==
    {ClassificationValue(type, answers) :
        type \in {"Checklist", "Dropdown"},
        answers \in {<<>>} \cup [1..1 -> Answers] \cup [1..2 -> Answers]}
    \cup {ClassificationValue("Radio", answer) : answer \in Answers}
    \cup {ClassificationValue("Text", PyStr("free text")),
          ClassificationValue("Other", None)}

\* Nested classifications without and with a confidence of their own.
Classifications ==
    {ClassificationAnnotation(confidence, value) :
        confidence \in {None, PyFloat("0.5")}, value \in ClassificationValues}

\* The nested classifications lists of two are drawn from.
NarrowClassifications ==
    {ClassificationAnnotation(None, ClassificationValue("Text", PyStr("free text"))),
     ClassificationAnnotation(None, ClassificationValue("Other", None)),
     ClassificationAnnotation(None,
        ClassificationValue("Radio", ClassificationAnswer(PyFloat("0.9")))),
     ClassificationAnnotation(None,
        ClassificationValue("Checklist", <<ClassificationAnswer(None)>>))}

\* Annotations with one nested classification at most, of every kind, and
\* with two nested classifications.
WideAnnotations ==
    {Annotation(confidence, classifications) :
        confidence \in {None, PyFloat("0.7")},
        classifications \in
            {Absent, None, PyList(<<>>)}
            \cup {PyList(cs) : cs \in [1..1 -> Classifications]}
            \cup {PyList(cs) : cs \in [1..2 -> NarrowClassifications]}}
    \cup {Annotation(Absent, None)}

\* The annotations labels of several annotations are made of.
NarrowAnnotations ==
    {Annotation(None, None),
     Annotation(PyFloat("0.7"), None),
     Annotation(None, Absent),
     Annotation(None, PyList(<<ClassificationAnnotation(PyFloat("0.5"),
            ClassificationValue("Text", PyStr("free text")))>>)),
     Annotation(None, PyList(<<ClassificationAnnotation(None,
            ClassificationValue("Dropdown", <<ClassificationAnswer(PyFloat("0.9"))>>))>>))}

\* Labels of no, one and two annotations.
NarrowLabels ==
    {Label(annotations) :
        annotations \in {<<>>} \cup [1..1 -> NarrowAnnotations]
                            \cup [1..2 -> NarrowAnnotations]}

\* The dicts format_clauses is handed: empty, or holding one entry of an
\* inner level already.
InitialParams == {<<>>, <<ParamEntry("param_0", PyStr("X123"), Entity_uid)>>}

\* The label id lists upsert_labels is called with.
LabelIdLists == {<<>>, <<PyStr("label1")>>, <<PyStr("label1"), PyStr("label2")>>}

\* The timeouts: none, less than, exactly and more than one sleep, and the
\* longest the server's answers last for.
Timeouts == {0, 3, sleep_time, 7, sleep_time * MaxPolls}

\* What the server answers to the successive executions: nothing yet, or
\* the id of the task.
ServerResponses == [1..MaxPolls -> {None, PyStr("task1")}]

\* Sub-selections that are neither a Query nor an Entity subtype: two
\* classes, a string, None and an instance of an Entity subtype.
MalformedSelections ==
    {PyClass("str"), PyClass("int"), PyStr("project"), None,
     DbObject("Project", PyStr("X123"))}

\* What a level over a malformed sub-selection is built with.
MalformedLevelOptions ==
    [where : {None, Comparison("NE", Project_name, PyStr("abc"))},
     paginate : BOOLEAN, order_by : {None}]

RECURSIVE ChainOver(_, _, _)
\* The Query of n nested levels over any innermost sub-selection.
ChainOver(selection, options, n) ==
    Query(LevelWhat(n),
          IF n = 1 THEN selection ELSE ChainOver(selection, options, n - 1),
          options[n].where, options[n].paginate, options[n].order_by)

-----------------------------------------------------------------------------
(* The client: one call at a time; a call runs to its return or its        *)
(* exception, and the client then goes on to the next call.                *)

Idle == [op |-> "idle"]

Init ==
    /\ call = Idle
    /\ result = Returned("", <<>>, <<>>)
    /\ heap = <<>>
    /\ first_top = <<>>

CallCheckWhereClause ==
    /\ call = Idle
    /\ \E entity \in Entities, fs \in FilterShapes :
        \E leaves \in Fillings(fs) :
            LET where == Fill(fs.shape, leaves, 1)
            IN  /\ call' = [op |-> "check_where_clause", entity |-> entity,
                            where |-> where]
                /\ result' = check_where_clause(entity, where)
    /\ UNCHANGED <<heap, first_top>>

CallCheckOrderByClause ==
    /\ call = Idle
    /\ \E entity \in Entities, order_by \in OrderBys \cup {None} :
        /\ call' = [op |-> "check_order_by_clause", entity |-> entity,
                    order_by |-> order_by]
        /\ result' = check_order_by_clause(entity, order_by)
    /\ UNCHANGED <<heap, first_top>>

CallFormat ==
    /\ call = Idle
    /\ \E entity \in Entities, n \in 1..MaxLevels :
        \E options \in [1..n -> LevelOptions] :
            LET q == Chain(entity, options, n)
            IN  /\ call' = [op |-> "format", query |-> q]
                /\ result' = format(q)
    /\ UNCHANGED <<heap, first_top>>

\* Query.format on the two levels relationship builds, the inner level with
\* any filter, accepted by check_where_clause or not.
CallFormatNested ==
    /\ call = Idle
    /\ \E fs \in FilterShapes, paginate \in BOOLEAN :
        \E leaves \in Fillings(fs) :
            LET subquery == Query("datasets", EntityType("Dataset"),
                                  Fill(fs.shape, leaves, 1), paginate, None)
                q == Query("project", subquery,
                           Comparison("EQ", Entity_uid, PyStr("X123")), FALSE, None)
            IN  /\ call' = [op |-> "format", query |-> q]
                /\ result' = format(q)
    /\ UNCHANGED <<heap, first_top>>

CallFormatTop ==
    /\ call = Idle
    /\ \E entity \in Entities, n \in 1..MaxLevels :
        \E options \in [1..n -> LevelOptions] :
            LET q == Chain(entity, options, n)
            IN  /\ call' = [op |-> "format_top", query |-> q, name |-> "GetThings"]
                /\ result' = format_top(q, "GetThings")
    /\ UNCHANGED <<heap, first_top>>

\* Query.format_clauses(params) on a Query with every combination of filter,
\* pagination flag and ordering.
CallFormatClauses ==
    /\ call = Idle
    /\ \E where \in LevelFilters, paginate \in BOOLEAN,
          order_by \in OrderBys \cup {None}, params \in InitialParams :
        LET q == Query("dataRows", EntityType("Project"), where, paginate, order_by)
            clauses == format_clauses(q, params)
        IN  /\ call' = [op |-> "format_clauses", query |-> q, params |-> params]
            /\ result' = Returned(clauses.text, clauses.params, <<>>)
    /\ UNCHANGED <<heap, first_top>>

\* Query.format and Query.format_top on a chain whose innermost
\* sub-selection is neither a Query nor an Entity subtype.
CallFormatMalformed ==
    /\ call = Idle
    /\ \E selection \in MalformedSelections, n \in 1..MaxLevels :
        \E options \in [1..n -> MalformedLevelOptions] :
            LET q == ChainOver(selection, options, n)
            IN  \/ /\ call' = [op |-> "format", query |-> q]
                   /\ result' = format(q)
                \/ /\ call' = [op |-> "format_top", query |-> q,
                                name |-> "GetThings"]
                   /\ result' = format_top(q, "GetThings")
    /\ UNCHANGED <<heap, first_top>>

\* LabelsConfidencePresenceChecker.check on one label of one annotation of
\* any kind, and on lists of up to MaxLabels labels.
CallCheck ==
    /\ call = Idle
    /\ \/ \E annotation \in WideAnnotations :
            LET label_list == <<Label(<<annotation>>)>>
            IN  /\ call' = [op |-> "check", label_list |-> label_list]
                /\ result' = check(label_list)
       \/ \E n \in 0..MaxLabels :
            \E label_list \in [1..n -> NarrowLabels] :
                /\ call' = [op |-> "check", label_list |-> label_list]
                /\ result' = check(label_list)
    /\ UNCHANGED <<heap, first_top>>

\* ModelRun.upsert_labels, run to its return or its exception.
CallUpsertLabels ==
    /\ call = Idle
    /\ \E label_ids \in LabelIdLists, timeout_seconds \in Timeouts,
          responses \in ServerResponses :
        /\ call' = [op |-> "upsert_labels", label_ids |-> label_ids,
                    timeout_seconds |-> timeout_seconds,
                    responses |-> responses]
        /\ result' = upsert_labels(label_ids, timeout_seconds, responses)
    /\ UNCHANGED <<heap, first_top>>

CallGetSingle ==
    /\ call = Idle
    /\ \E entity \in Entities, uid \in Uids :
        /\ call' = [op |-> "get_single", entity |-> entity, uid |-> uid]
        /\ result' = get_single(entity, uid)
    /\ UNCHANGED <<heap, first_top>>

CallGetAll ==
    /\ call = Idle
    /\ \E entity \in Entities, fs \in FilterShapes :
        \E leaves \in Fillings(fs) :
            LET where == Fill(fs.shape, leaves, 1)
            IN  /\ call' = [op |-> "get_all", entity |-> entity, where |-> where]
                /\ result' = get_all(entity, where)
    /\ UNCHANGED <<heap, first_top>>

CallRelationship ==
    /\ call = Idle
    /\ \E sr \in SourcesAndRelationships, fs \in RelShapes,
          order_by \in RelOrderBys :
        \E leaves \in Fillings(fs) :
            LET where == Fill(fs.shape, leaves, 1)
            IN  /\ call' = [op |-> "relationship", source |-> sr[1],
                            relationship |-> sr[2], where |-> where,
                            order_by |-> order_by]
                /\ result' = relationship(sr[1], sr[2], where, order_by)
    /\ UNCHANGED <<heap, first_top>>

CallDelete ==
    /\ call = Idle
    /\ \E db_object \in DbObjects :
        /\ call' = [op |-> "delete", db_object |-> db_object]
        /\ result' = delete(db_object)
    /\ UNCHANGED <<heap, first_top>>

\* The call is over: its result is dropped and the client is ready again.
Return ==
    /\ call # Idle
    /\ call' = Idle
    /\ result' = Returned("", <<>>, <<>>)
    /\ UNCHANGED <<heap, first_top>>

Next ==
    \/ CallCheckWhereClause
    \/ CallCheckOrderByClause
    \/ CallFormat
    \/ CallFormatNested
    \/ CallFormatTop
    \/ CallFormatClauses
    \/ CallFormatMalformed
    \/ CallCheck
    \/ CallUpsertLabels
    \/ CallGetSingle
    \/ CallGetAll
    \/ CallRelationship
    \/ CallDelete
    \/ Return

Spec == Init /\ [][Next]_vars

-----------------------------------------------------------------------------
(* The client that keeps its Query objects.                                *)

\* No format_top on the object yet.
NotYet == [kind |-> "NotYet"]

\* The Query objects kept: one- and two-level Queries over Project, without
\* a filter, with a filter of one leaf and with a filter of two.
KeptQueries ==
    LET one(where) == Query("projects", EntityType("Project"), where, TRUE, None)
        two(where) ==
            Query("organization",
                  Query("projects", EntityType("Project"), where, TRUE,
                        OrderBy(Project_name, "Desc")),
                  Comparison("EQ", Entity_uid, PyStr("X123")), FALSE, None)
        ne == Comparison("NE", Project_name, PyStr("abc"))
        both == LogicalExpression("AND",
                    Comparison("EQ", Entity_uid, PyStr("X123")),
                    LogicalExpression("NOT",
                        Comparison("GE", Dataset_name, PyInt(7)), None))
    IN  <<one(None), one(ne), one(both), two(None), two(ne), two(both)>>

\* The client has built its Query objects; no dict exists yet.
InitRepeat ==
    /\ call = Idle
    /\ result = Returned("", <<>>, <<>>)
    /\ heap = KeptQueries
    /\ first_top = [id \in 1..Len(KeptQueries) |-> NotYet]

\* Query.format() on a kept object.  The caller gets the text and the
\* address of the dict.
FormatObject ==
    /\ call = Idle
    /\ Len(heap) < Len(KeptQueries) + MaxDicts
    /\ \E id \in 1..Len(KeptQueries) :
        LET f == format_on(heap, heap[id])
        IN  /\ call' = [op |-> "format", id |-> id, query |-> heap[id]]
            /\ result' = Result(f)
            /\ heap' = f.heap
    /\ UNCHANGED first_top

\* Query.format_top(name) on a kept object; the first result on each object
\* is remembered, with the size of the heap it left.
FormatTopObject ==
    /\ call = Idle
    /\ Len(heap) < Len(KeptQueries) + MaxDicts
    /\ \E id \in 1..Len(KeptQueries) :
        LET f == format_top_on(heap, heap[id], "GetThings")
        IN  /\ call' = [op |-> "format_top", id |-> id, query |-> heap[id],
                        name |-> "GetThings"]
            /\ result' = Result(f)
            /\ heap' = f.heap
            /\ first_top' =
                    IF first_top[id] = NotYet
                    THEN [first_top EXCEPT
                            ![id] = [result |-> Result(f), heap_size |-> Len(f.heap)]]
                    ELSE first_top

NextRepeat ==
    \/ FormatObject
    \/ FormatTopObject
    \/ Return

SpecRepeat == InitRepeat /\ [][NextRepeat]_vars

-----------------------------------------------------------------------------
(* What the properties are stated with.                                    *)

RECURSIVE ComparisonLeaves(_)
\* The Comparison leaves of a filter, left to right; none for None.
ComparisonLeaves(tree) ==
    IF tree.kind = "Comparison" THEN <<tree>>
    ELSE IF tree.kind = "LogicalExpression"
    THEN ComparisonLeaves(tree.first) \o ComparisonLeaves(tree.second)
    ELSE <<>>

RECURSIVE OperatorsOf(_)
\* The set of the operators of the LogicalExpression nodes of a filter.
OperatorsOf(tree) ==
    IF tree.kind = "LogicalExpression"
    THEN {tree.op} \cup OperatorsOf(tree.first) \cup OperatorsOf(tree.second)
    ELSE {}

RECURSIVE ChainLeaves(_)
\* The Comparison leaves of all levels of a Query, innermost level first.
ChainLeaves(q) ==
    (IF q.subquery.kind = "Query" THEN ChainLeaves(q.subquery) ELSE <<>>)
        \o ComparisonLeaves(q.where)

RECURSIVE Innermost(_)
\* The innermost sub-selection of a Query.
Innermost(q) == IF q.subquery.kind = "Query" THEN Innermost(q.subquery) ELSE q.subquery

RECURSIVE ChainDepth(_)
ChainDepth(q) == IF q.subquery.kind = "Query" THEN 1 + ChainDepth(q.subquery) ELSE 1

\* The fields declared on an entity type.
Declared(entity) == SeqToSet(EntityFields(entity))

\* The fields of the leaves of a filter, as a set.
LeafFields(tree) ==
    {ComparisonLeaves(tree)[i].field : i \in 1..Len(ComparisonLeaves(tree))}

\* Some field other than `except` is the field of two leaves of the filter.
RepeatsAField(tree, except) ==
    LET ls == ComparisonLeaves(tree)
    IN  \E i, j \in 1..Len(ls) :
            i < j /\ ls[i].field = ls[j].field /\ ls[i].field \notin except

\* The k-th parameter name, counting from 1.
NthParam(k) == "param_" \o ToString(k - 1)

\* The parameter table with one entry per leaf, in the order of the leaves.
TableOf(ls) ==
    [k \in 1..Len(ls) |-> ParamEntry(NthParam(k), ls[k].value, ls[k].field)]

\* The variables mapping with one entry per leaf, in the order of the leaves.
VariablesOf(ls) ==
    [k \in 1..Len(ls) |-> [name |-> NthParam(k), value |-> ls[k].value]]

PairwiseDistinct(seq) ==
    \A i, j \in 1..Len(seq) : i # j => seq[i] # seq[j]

-----------------------------------------------------------------------------
(* Properties.                                                             *)

\* C1: parameter names never collide.  For a Query that is a chain of nested
\* Queries, format returns a table with one entry of its own key param_<n>
\* for every Comparison leaf of every level: the keys are pairwise distinct,
\* the table has as many entries as the levels have leaves together, and the
\* entries of the inner levels are still there, before those of the outer
\* levels.  The same holds of the variables of format_top and relationship.
C1_ParamNamesNeverCollide ==
    /\ (call.op = "format" /\ Innermost(call.query).kind = "Entity") =>
        /\ result.raised = ""
        /\ PairwiseDistinct(Keys(result.params))
        /\ Len(result.params) = Len(ChainLeaves(call.query))
        /\ result.params = TableOf(ChainLeaves(call.query))
    /\ (call.op = "format_top" /\ Innermost(call.query).kind = "Entity") =>
        /\ result.raised = ""
        /\ PairwiseDistinct(Keys(result.variables))
        /\ Len(result.variables) = Len(ChainLeaves(call.query))
    /\ (call.op = "relationship" /\ result.raised = "") =>
        /\ PairwiseDistinct(Keys(result.variables))
        /\ Len(result.variables) = Len(ComparisonLeaves(call.where)) + 1

\* A chain of three levels with a filter of two leaves at every level was
\* formatted into a table of six entries.
C1_Witness ==
    /\ call.op = "format"
    /\ Innermost(call.query).kind = "Entity"
    /\ ChainDepth(call.query) = 3
    /\ Len(ComparisonLeaves(call.query.where)) = 2
    /\ Len(ComparisonLeaves(call.query.subquery.where)) = 2
    /\ Len(ComparisonLeaves(call.query.subquery.subquery.where)) = 2
    /\ Len(result.params) = 6
    /\ Keys(result.params)[6] = "param_5"

\* C2: round trip.  For a filter check_where_clause accepts for the entity,
\* formatting completes and the table has exactly one entry per Comparison
\* leaf (format), and the variables of format_top (here through get_all and
\* on a one-level Query) have the same keys, each with the value of its leaf.
C2_RoundTrip ==
    /\ (call.op = "get_all"
            /\ check_where_clause(call.entity, call.where).raised = "") =>
        /\ result.raised = ""
        /\ result.variables = VariablesOf(ComparisonLeaves(call.where))
    /\ (call.op \in {"format", "format_top"}
            /\ call.query.subquery.kind = "Entity"
            /\ check_where_clause(call.query.subquery.name,
                                  call.query.where).raised = "") =>
        /\ result.raised = ""
        /\ call.op = "format" =>
                result.params = TableOf(ComparisonLeaves(call.query.where))
        /\ call.op = "format_top" =>
                result.variables = VariablesOf(ComparisonLeaves(call.query.where))

\* get_all formatted an accepted filter of three leaves with three values.
C2_Witness ==
    /\ call.op = "get_all"
    /\ result.raised = ""
    /\ Len(ComparisonLeaves(call.where)) = 3
    /\ Len(result.variables) = 3
    /\ result.variables[1].value # result.variables[2].value

\* The filter LogicalExpression(op, Comparison(f,EQ,1), Comparison(f,EQ,2)).
SameFieldPair(op, f) ==
    LogicalExpression(op, Comparison("EQ", f, PyInt(1)), Comparison("EQ", f, PyInt(2)))

\* C3 as stated: for every field f declared on E the OR of two EQ
\* comparisons on f fails with InvalidQuery, and the same tree with AND is
\* accepted.
C3_AsStated ==
    (call.op = "check_where_clause"
        /\ \E f \in Declared(call.entity) :
                call.where \in {SameFieldPair("OR", f), SameFieldPair("AND", f)}) =>
        IF call.where.op = "OR"
        THEN result.raised = "InvalidQueryError"
        ELSE result.raised = ""

\* C3 amended: for every field f declared on E both the OR and the AND of
\* two EQ comparisons on f fail with InvalidQuery (the field is compared
\* twice); the AND of EQ comparisons on two different declared fields is
\* accepted, and their OR fails with InvalidQuery.
C3_SameFieldPairFails ==
    call.op = "check_where_clause" =>
        /\ \A f \in Declared(call.entity) :
            call.where \in {SameFieldPair("OR", f), SameFieldPair("AND", f)} =>
                result.raised = "InvalidQueryError"
        /\ \A f, g \in Declared(call.entity) :
            f # g =>
                /\ call.where = LogicalExpression("AND",
                        Comparison("EQ", f, PyInt(1)), Comparison("EQ", g, PyInt(2)))
                    => result.raised = ""
                /\ call.where = LogicalExpression("OR",
                        Comparison("EQ", f, PyInt(1)), Comparison("EQ", g, PyInt(2)))
                    => result.raised = "InvalidQueryError"

\* The AND of two EQ comparisons on Project.name was checked for Project.
C3_Witness ==
    /\ call.op = "check_where_clause"
    /\ call.entity = "Project"
    /\ call.where = SameFieldPair("AND", Project_name)
    /\ result.raised = "InvalidQueryError"

\* C4 as stated: every filter in which the same field, whatever the field,
\* is the field of two or more leaves fails with InvalidQuery.
C4_AsStated ==
    (call.op = "check_where_clause" /\ RepeatsAField(call.where, {})) =>
        result.raised = "InvalidQueryError"

\* C4 amended: a filter in which a field other than the soft-delete marker
\* is the field of two or more leaves, and whose fields other than the marker
\* are all declared on E, fails with InvalidQuery, whatever the comparison
\* and logical operators; a filter that repeats the marker only, with its
\* other fields declared and AND its only operator, is accepted; a filter
\* that repeats a field and has a field not declared on E fails with
\* InvalidField (InvalidAttributeError).
C4_RepeatedDeclaredFieldFails ==
    call.op = "check_where_clause" =>
        IF LeafFields(call.where) \ {Entity_deleted} \subseteq Declared(call.entity)
        THEN /\ RepeatsAField(call.where, {Entity_deleted}) =>
                /\ result.raised = "InvalidQueryError"
                /\ result.msg = "multiple comparisons for the same field"
             /\ (RepeatsAField(call.where, {})
                    /\ ~RepeatsAField(call.where, {Entity_deleted})
                    /\ OperatorsOf(call.where) \subseteq {"AND"}) =>
                result.raised = ""
        ELSE RepeatsAField(call.where, {}) =>
                result.raised = "InvalidAttributeError"

\* A filter that compares a declared field twice, with different comparison
\* operators and under AND only, was rejected.
C4_Witness ==
    /\ call.op = "check_where_clause"
    /\ call.where.kind = "LogicalExpression"
    /\ call.where.op = "AND"
    /\ call.where.first.kind = "Comparison"
    /\ call.where.second.kind = "Comparison"
    /\ call.where.first.field = Project_name
    /\ call.where.second.field = Project_name
    /\ call.where.first.op = "LT"
    /\ call.where.second.op = "GE"
    /\ call.entity = "Project"
    /\ result.raised = "InvalidQueryError"

\* C5: a filter with, at any depth, a leaf whose field is neither declared on
\* E nor the soft-delete marker fails with InvalidField
\* (InvalidAttributeError), also when it repeats a field or has OR or NOT;
\* get_all fails the same way.
C5_UndeclaredFieldFails ==
    (call.op \in {"check_where_clause", "get_all"}
        /\ ~(LeafFields(call.where) \subseteq Declared(call.entity) \cup {Entity_deleted}))
        => result.raised = "InvalidAttributeError"

\* A filter with an undeclared field two levels down, a repeated field and
\* an OR was rejected with InvalidAttributeError.
C5_Witness ==
    /\ call.op = "check_where_clause"
    /\ call.entity = "Project"
    /\ call.where.kind = "LogicalExpression"
    /\ call.where.first.kind = "LogicalExpression"
    /\ call.where.first.first.kind = "Comparison"
    /\ call.where.first.first.field = Dataset_name
    /\ RepeatsAField(call.where, {})
    /\ "OR" \in OperatorsOf(call.where)
    /\ result.raised = "InvalidAttributeError"

\* C6: a filter whose leaves have pairwise distinct fields, all declared on
\* E, is accepted if and only if every operator in it, at every depth, is
\* AND; with an OR or a NOT anywhere it fails with InvalidQuery.
C6_OnlyAndIsAccepted ==
    (call.op = "check_where_clause"
        /\ call.where # None
        /\ ~RepeatsAField(call.where, {})
        /\ LeafFields(call.where) \subseteq Declared(call.entity)) =>
        /\ result.raised = "" <=> OperatorsOf(call.where) \subseteq {"AND"}
        /\ result.raised \in {"", "InvalidQueryError"}

\* A filter of three distinct declared fields with AND at the root and an OR
\* below it was rejected, and one with AND at both places was accepted.
C6_Witness ==
    /\ call.op = "check_where_clause"
    /\ call.entity = "Project"
    /\ Len(ComparisonLeaves(call.where)) = 3
    /\ LeafFields(call.where) = Declared("Project")
    /\ call.where.op = "AND"
    /\ OperatorsOf(call.where) = {"AND", "OR"}
    /\ result.raised = "InvalidQueryError"

\* C7: check_order_by_clause does nothing when the ordering is None, fails
\* with InvalidField (InvalidAttributeError) when the field of the ordering
\* is not declared on E, and returns for a declared field in either
\* direction.
C7_CheckOrderBy ==
    call.op = "check_order_by_clause" =>
        IF call.order_by = None THEN result = Returned("", <<>>, <<>>)
        ELSE IF call.order_by.field \in Declared(call.entity)
        THEN result.raised = ""
        ELSE result.raised = "InvalidAttributeError"

\* An ordering on Dataset.name, which has the name of a field of Project,
\* was rejected for Project.
C7_Witness ==
    /\ call.op = "check_order_by_clause"
    /\ call.entity = "Project"
    /\ call.order_by = OrderBy(Dataset_name, "Desc")
    /\ result.raised = "InvalidAttributeError"

\* The space-joined wire names of the fields of an entity type.
WireNames(entity) ==
    CASE entity = "Project" -> "description name id"
      [] entity = "Dataset" -> "createdAt name id"
      [] entity = "ModelRun" -> "createdAt createdBy modelId name id updatedAt"

\* The selection name get_single and get_all derive from the type name.
SelectionName(entity) ==
    CASE entity = "Project" -> "project"
      [] entity = "Dataset" -> "dataset"
      [] entity = "ModelRun" -> "modelRun"

\* C8: format_top on a Query with an Entity sub-selection and no filter, no
\* pagination and no ordering gives no parameter declaration and no
\* variables: the text is `query <Name>PyApi{<selection>{<wire names>}}`.
C8_NoClausesNoDeclaration ==
    /\ (call.op = "format_top"
            /\ call.query.subquery.kind = "Entity"
            /\ call.query.where = None
            /\ ~call.query.paginate
            /\ call.query.order_by = None) =>
        /\ result.text = "query " \o call.name \o "PyApi{" \o call.query.what
                            \o "{" \o WireNames(call.query.subquery.name) \o "}}"
        /\ result.variables = <<>>
    /\ (call.op = "get_single" /\ call.uid = None) =>
        /\ result.text = "query Get" \o call.entity \o "PyApi{"
                            \o SelectionName(call.entity)
                            \o "{" \o WireNames(call.entity) \o "}}"
        /\ result.variables = <<>>
        /\ call.entity = "Project" =>
            result.text = "query GetProjectPyApi{project{description name id}}"

\* Project was fetched with no filter.
C8_Witness ==
    /\ call.op = "get_single"
    /\ call.entity = "Project"
    /\ call.uid = None
    /\ result.text = "query GetProjectPyApi{project{description name id}}"

\* C9 as stated: get_single with a uid passed by the caller, whatever its
\* value, gives a query whose only clause is `where: {id: $param_0}` and
\* the variables {param_0: uid}.
C9_AsStated ==
    (call.op = "get_single" /\ call.uid # None) =>
        /\ result.text = "query Get" \o call.entity \o "PyApi($param_0: ID!){"
                            \o SelectionName(call.entity)
                            \o "(where: {id: $param_0}){"
                            \o WireNames(call.entity) \o "}}"
        /\ result.variables = <<[name |-> "param_0", value |-> call.uid]>>

\* The text of delete for an object of the type.
DeleteText(type) ==
    CASE type = "Project" ->
            "mutation deleteProjectPyApi($ProjectId: ID!){updateProject(\n        where: {id: $ProjectId} data: {deleted: true}) {id}} "
      [] type = "Dataset" ->
            "mutation deleteDatasetPyApi($DatasetId: ID!){updateDataset(\n        where: {id: $DatasetId} data: {deleted: true}) {id}} "
      [] type = "Label" ->
            "mutation deleteLabelPyApi($LabelId: ID!){updateLabel(\n        where: {id: $LabelId} data: {deleted: true}) {id}} "

\* C10: delete is a soft delete.  For every object it returns an update
\* mutation with the payload `data: {deleted: true}`, filtered by
\* `where: {id: $<id_param>}`, declaring that one ID parameter, and the
\* variables {<id_param>: db_object.uid}.
C10_DeleteIsSoft ==
    call.op = "delete" =>
        /\ result.raised = ""
        /\ result.text = DeleteText(call.db_object.type)
        /\ result.variables =
            <<[name |-> call.db_object.type \o "Id", value |-> call.db_object.uid]>>

\* The Project with id X123 was deleted.
C10_Witness ==
    /\ call.op = "delete"
    /\ call.db_object = DbObject("Project", PyStr("X123"))
    /\ result.variables = <<[name |-> "ProjectId", value |-> PyStr("X123")]>>

\* C11 as stated: formatting a Query whose innermost sub-selection is
\* neither a Query nor an Entity subtype, at any nesting depth, fails with
\* the dedicated malformed-selection error and returns no text and no
\* parameter table.
C11_AsStated ==
    (call.op \in {"format", "format_top"}
            /\ Innermost(call.query).kind \notin {"Query", "Entity"}) =>
        /\ result.raised = "MalformedQueryException"
        /\ result.text = ""
        /\ result.params = <<>>
        /\ result.variables = <<>>

\* What does hold of such a Query: the call raises, NameError for a class
\* and TypeError for a value that is no class, and returns nothing.
C11_FailsWithAnotherError ==
    (call.op \in {"format", "format_top"}
            /\ Innermost(call.query).kind \notin {"Query", "Entity"}) =>
        /\ result.raised =
                (IF Innermost(call.query).kind = "class" THEN "NameError"
                 ELSE "TypeError")
        /\ result.text = ""
        /\ result.params = <<>>
        /\ result.variables = <<>>

\* A confidence that is there and is not null.
NonNull(confidence) == confidence \notin {None, Absent}

\* The answers of a classification value: the items of a Checklist or a
\* Dropdown, the one answer of a Radio, none otherwise.
AnswersOf(value) ==
    IF value.kind \in {"Checklist", "Dropdown"} THEN SeqToSet(value.answer)
    ELSE IF value.kind = "Radio" THEN {value.answer}
    ELSE {}

\* The nested classifications of an annotation, none if it has no list.
NestedOf(annotation) ==
    IF annotation.classifications.kind = "list"
    THEN SeqToSet(annotation.classifications.items)
    ELSE {}

\* Some annotation of some label has a non-null confidence, or has a nested
\* classification with a non-null confidence on itself or on an answer.
ContainsConfidence(label_list) ==
    \E i \in 1..Len(label_list) :
        \E annotation \in SeqToSet(label_list[i].annotations) :
            \/ NonNull(annotation.confidence)
            \/ \E classification \in NestedOf(annotation) :
                    \/ NonNull(classification.confidence)
                    \/ \E answer \in AnswersOf(classification.value) :
                            NonNull(answer.confidence)

\* Every annotation has both attributes the checker reads, and every nested
\* classification a value of a type the checker knows.
WellTyped(label_list) ==
    \A i \in 1..Len(label_list) :
        \A annotation \in SeqToSet(label_list[i].annotations) :
            /\ annotation.confidence # Absent
            /\ annotation.classifications # Absent
            /\ \A classification \in NestedOf(annotation) :
                    classification.value.kind # "Other"

\* C12 as stated: check returns True if and only if the labels contain at
\* least one confidence score, on an annotation, on a nested classification
\* or on one of its answers, and returns False otherwise, for the empty
\* list too.  Stated of the labels whose annotations have the attributes
\* and the value types the checker expects.
C12_AsStated ==
    (call.op = "check" /\ WellTyped(call.label_list)) =>
        result = ReturnedValue(ContainsConfidence(call.label_list))

\* What does hold: when check returns, it returns True exactly for a
\* confidence on an annotation or on an answer of a nested classification of
\* an annotation that has none itself; and it returns True only if the
\* labels contain a confidence.
C12_AnswersOnly ==
    (call.op = "check" /\ result.raised = "") =>
        /\ result.value =
                \E i \in 1..Len(call.label_list) :
                    \E annotation \in SeqToSet(call.label_list[i].annotations) :
                        \/ NonNull(annotation.confidence)
                        \/ \E classification \in NestedOf(annotation) :
                            \E answer \in AnswersOf(classification.value) :
                                NonNull(answer.confidence)
        /\ result.value => ContainsConfidence(call.label_list)

\* The filter clause of the two filters of LevelFilters, formatted into a
\* dict that holds k entries already; empty for no filter.
WhereClauseOf(where, k) ==
    CASE where = None -> ""
      [] where = Comparison("NE", Project_name, PyStr("abc")) ->
            "where: {name_not: $param_" \o ToString(k) \o "}"
      [] OTHER ->
            "where: {AND: [{id: $param_" \o ToString(k)
                \o "}, {NOT: [{name_gte: $param_" \o ToString(k + 1) \o "}]}]}"

\* The pagination clause of a flag.
PaginateClauseOf(paginate) == IF paginate THEN "skip: %d first: %d" ELSE ""

\* The ordering clause of an ordering; empty for none.
OrderByClauseOf(order_by) ==
    IF order_by = None THEN ""
    ELSE "orderBy: " \o order_by.field.graphql_name
            \o (IF order_by.order = "Asc" THEN "_ASC" ELSE "_DESC")

\* C13: for every combination of filter present or absent, pagination flag
\* on or off and ordering present or absent, format_clauses emits the
\* clauses that are there in the order filter, pagination, ordering, with
\* single spaces between them and one pair of parentheses around them, and
\* emits the empty string exactly when none of the three is there.
C13_ClausesInFixedOrder ==
    call.op = "format_clauses" =>
        LET w == WhereClauseOf(call.query.where, Len(call.params))
            p == PaginateClauseOf(call.query.paginate)
            o == OrderByClauseOf(call.query.order_by)
            W == w # ""
            P == p # ""
            O == o # ""
        IN  /\ result.raised = ""
            /\ result.text =
                    CASE W /\ P /\ O -> "(" \o w \o " " \o p \o " " \o o \o ")"
                      [] W /\ P /\ ~O -> "(" \o w \o " " \o p \o ")"
                      [] W /\ ~P /\ O -> "(" \o w \o " " \o o \o ")"
                      [] W /\ ~P /\ ~O -> "(" \o w \o ")"
                      [] ~W /\ P /\ O -> "(" \o p \o " " \o o \o ")"
                      [] ~W /\ P /\ ~O -> "(" \o p \o ")"
                      [] ~W /\ ~P /\ O -> "(" \o o \o ")"
                      [] ~W /\ ~P /\ ~O -> ""
            /\ result.text = "" <=>
                    /\ call.query.where = None
                    /\ ~call.query.paginate
                    /\ call.query.order_by = None

\* All three clauses were emitted, the filter numbered after the entry the
\* dict held already.
C13_Witness ==
    /\ call.op = "format_clauses"
    /\ call.query.where = Comparison("NE", Project_name, PyStr("abc"))
    /\ call.query.paginate
    /\ call.query.order_by = OrderBy(Project_description, "Asc")
    /\ Len(call.params) = 1
    /\ result.text =
        "(where: {name_not: $param_1} skip: %d first: %d orderBy: description_ASC)"

\* The suffix of a comparison operator on the wire.
SuffixOf(op) ==
    CASE op = "EQ" -> "" [] op = "NE" -> "_not" [] op = "LT" -> "_lt"
      [] op = "GT" -> "_gt" [] op = "LE" -> "_lte" [] op = "GE" -> "_gte"

RECURSIVE Rendered(_, _)
\* The text of a filter whose first leaf, left to right, is bound to
\* param_<k>: the leaves of the second child of an AND or OR are numbered
\* after those of the first.
Rendered(tree, k) ==
    IF tree.kind = "Comparison"
    THEN "{" \o tree.field.graphql_name \o SuffixOf(tree.op)
            \o ": $param_" \o ToString(k) \o "}"
    ELSE IF tree.op = "NOT"
    THEN "{NOT: [" \o Rendered(tree.first, k) \o "]}"
    ELSE "{" \o tree.op \o ": [" \o Rendered(tree.first, k) \o ", "
            \o Rendered(tree.second, k + Len(ComparisonLeaves(tree.first)))
            \o "]}"

\* Two texts with a space between them, if both are there.
Spaced(a, b) == IF a = "" THEN b ELSE IF b = "" THEN a ELSE a \o " " \o b

\* The clauses of one level of a Query, its filter numbered from param_<k>.
LevelClauses(q, k) ==
    LET w == IF q.where = None THEN "" ELSE "where: " \o Rendered(q.where, k)
        c == Spaced(Spaced(w, PaginateClauseOf(q.paginate)),
                    OrderByClauseOf(q.order_by))
    IN  IF c = "" THEN "" ELSE "(" \o c \o ")"

\* C14: the filter renderer walks the tree depth-first, first child before
\* second child.  A Comparison leaf is rendered as
\* {<wire name><suffix>: $param_<n>}, n the size of the parameter table when
\* the leaf is visited, the suffix "", _not, _lt, _gt, _lte, _gte for EQ, NE,
\* LT, GT, LE, GE; NOT as {NOT: [<child>]}; AND and OR as
\* {<OP>: [<first>, <second>]}.  So the k-th leaf, left to right, of the
\* filter of a Query over an entity sub-selection is bound to param_<k-1>,
\* and the leaves of the level above are numbered on from there.
C14_DepthFirstLeftToRight ==
    /\ call.op = "format_clauses" =>
            /\ result.text = LevelClauses(call.query, Len(call.params))
            /\ result.params = call.params \o
                    [k \in 1..Len(ComparisonLeaves(call.query.where)) |->
                        ParamEntry(NthParam(Len(call.params) + k),
                                   ComparisonLeaves(call.query.where)[k].value,
                                   ComparisonLeaves(call.query.where)[k].field)]
    /\ (call.op = "format" /\ call.query.subquery.kind = "Entity") =>
            /\ result.text = call.query.what \o LevelClauses(call.query, 0)
                    \o "{" \o WireNames(call.query.subquery.name) \o "}"
            /\ result.params = TableOf(ComparisonLeaves(call.query.where))
    /\ (call.op = "format" /\ call.query.subquery.kind = "Query"
            /\ call.query.subquery.subquery.kind = "Entity") =>
            LET sub == call.query.subquery
                inner == ComparisonLeaves(sub.where)
            IN  /\ result.text = call.query.what
                        \o LevelClauses(call.query, Len(inner))
                        \o "{" \o sub.what \o LevelClauses(sub, 0)
                        \o "{" \o WireNames(sub.subquery.name) \o "}}"
                /\ result.params =
                        TableOf(inner \o ComparisonLeaves(call.query.where))
    /\ (call.op = "get_all" /\ result.raised = "") =>
            result.variables = VariablesOf(ComparisonLeaves(call.where))

\* A filter with an OR above an AND, of three leaves, was
\* formatted below a level with a filter of its own: its leaves are bound to
\* param_0, param_1, param_2 from left to right and the leaf of the level
\* above to param_3.
C14_Witness ==
    /\ call.op = "format"
    /\ call.query.what = "project"
    /\ call.query.subquery.kind = "Query"
    /\ call.query.subquery.where.kind = "LogicalExpression"
    /\ call.query.subquery.where.op = "OR"
    /\ OperatorsOf(call.query.subquery.where) = {"OR", "AND"}
    /\ Len(ComparisonLeaves(call.query.subquery.where)) = 3
    /\ ComparisonLeaves(call.query.subquery.where)[1].field
            # ComparisonLeaves(call.query.subquery.where)[3].field
    /\ Keys(result.params) = <<"param_0", "param_1", "param_2", "param_3">>
    /\ result.params[1].attr = ComparisonLeaves(call.query.subquery.where)[1].field
    /\ result.params[3].attr = ComparisonLeaves(call.query.subquery.where)[3].field
    /\ result.params[4].attr = Entity_uid

\* max(1, ceil(timeout_seconds / 5))
MostExecutions(timeout_seconds) ==
    IF timeout_seconds <= 5 THEN 1 ELSE (timeout_seconds + 4) \div 5

\* The first non-empty answer among the first n, None if there is none.
FirstAnswer(responses, n) ==
    IF \E i \in 1..n : responses[i] # None
    THEN responses[CHOOSE i \in 1..n :
                    /\ responses[i] # None
                    /\ \A j \in 1..(i - 1) : responses[j] = None]
    ELSE None

\* C15 as stated: upsert_labels with a non-empty label_ids list terminates
\* without an error: it executes the mutation at least once and at most
\* max(1, ceil(timeout_seconds / 5)) times, and returns the first non-empty
\* server result among these, or None if there is none; with an empty list
\* it raises ValueError before executing any request.
C15_AsStated ==
    call.op = "upsert_labels" =>
        IF Len(call.label_ids) = 0
        THEN result.raised = "ValueError" /\ result.executions = 0
        ELSE /\ result.raised = ""
             /\ result.executions >= 1
             /\ result.executions <= MostExecutions(call.timeout_seconds)
             /\ result.value =
                    FirstAnswer(call.responses,
                                MostExecutions(call.timeout_seconds))

\* What does hold: upsert_labels never executes a request; it raises
\* ValueError for an empty list and TypeError otherwise.
C15_NeverExecutes ==
    call.op = "upsert_labels" =>
        /\ result.executions = 0
        /\ result.raised =
                (IF Len(call.label_ids) = 0 THEN "ValueError" ELSE "TypeError")

\* C16: formatting keeps no state across calls.  Whatever format and
\* format_top calls were made before, on the same Query object or on
\* others, and whatever dicts they left behind, format_top on a Query
\* returns the text and the variables it returned the first time, the
\* variables named from param_0 on; format returns a dict of its own, named
\* from param_0 on; and no call changes a Query object or its filter.
C16_NoStateAcrossCalls ==
    /\ [](call.op = "format_top" =>
            /\ first_top[call.id] # NotYet
            /\ result.raised = ""
            /\ result.text = first_top[call.id].result.text
            /\ result.variables = first_top[call.id].result.variables
            /\ result.variables = VariablesOf(ChainLeaves(call.query)))
    /\ [](call.op = "format" =>
            /\ result.params = Len(heap)
            /\ heap[result.params] = PyDict(TableOf(ChainLeaves(call.query))))
    /\ [][\A id \in 1..Len(KeptQueries) : heap'[id] = heap[id]]_vars

\* format_top ran on a Query with filters for the second time, after its
\* first run and a format of another Query had each left a dict with entries
\* on the heap, and returned what it had returned the first time.
C16_Witness ==
    /\ call.op = "format_top"
    /\ first_top[call.id] # NotYet
    /\ first_top[call.id].heap_size < Len(heap)
    /\ Len(heap) = Len(KeptQueries) + 3
    /\ \A a \in (Len(KeptQueries) + 1)..Len(heap) : Len(heap[a].entries) >= 2
    /\ heap[Len(heap) - 1] # heap[Len(heap)]
    /\ result = first_top[call.id].result
    /\ Keys(result.variables) = <<"param_0", "param_1", "param_2">>

====
